---------------------------- MODULE Spec2Model ----------------------------
(***************************************************************************)
(* Ultraviolet_Catastrophe_Graph.py: the interactive black-body plot.      *)
(*                                                                         *)
(* The script keeps its state in matplotlib widgets and artists (the       *)
(* slider value, the text of the text box, the check box, the y data of    *)
(* the two curves, the y limits, the Wien marker, the legend) and in one   *)
(* module global (current_use_log_scale).  Its callbacks call each other   *)
(* through the widgets: slider.set_val notifies update, update calls       *)
(* textbox.set_val, which notifies on_text_submit, which calls             *)
(* slider.set_val or textbox.set_val again.  The model keeps the call      *)
(* stack of the single UI thread, one frame per active call, and one       *)
(* step per stretch of code between two calls.                             *)
(*                                                                         *)
(* Numbers.  A temperature is an integer number of hundredths of a kelvin  *)
(* (texts with up to two decimals parse exactly; 5000.5 K is 500050).      *)
(* A spectral radiance spans 1e-282 .. 1e+26, so a radiance y > 0 is kept  *)
(* as its natural logarithm in millionths, round(ln(y) * 10^6), and 0.0    *)
(* as Zero, which is below every logarithm.  Order, maximum and equality   *)
(* carry over, and a product with a positive constant is a sum.            *)
(***************************************************************************)
EXTENDS Integers, Naturals, Sequences, FiniteSets, TLC

(***************************************************************************)
(* Fixed-point arithmetic on 32-bit integers                               *)
(***************************************************************************)
Scale == 10^6      \* one unit of a logarithm is 1e-6
Half == 10^3       \* Scale = Half * Half
Fine == 10^2       \* guard digits: Scale * Fine is one unit of 1e-8
Kelvin == 10^2     \* 1 K in units of temperature

\* round(a * b / Scale) for 0 <= a, b <= Scale, without leaving 32 bits
MulS(a, b) ==
    (a * (b \div Half) + (a * (b % Half) + Half \div 2) \div Half + Half \div 2) \div Half

\* Exact long division.  A pair <<q, r>> stands for the number q + r / c
\* (0 <= r < c); ScaleStep multiplies it by m (r * m must fit 32 bits).
ScaleStep(qr, m, c) == <<qr[1] * m + (qr[2] * m) \div c, (qr[2] * m) % c>>

PairAdd(p1, p2, c) == <<p1[1] + p2[1] + (p1[2] + p2[2]) \div c, (p1[2] + p2[2]) % c>>

\* the pair times m, for m < 10000 and c < 2 * 10^7
ScaleBig(qr, m, c) ==
    PairAdd(ScaleStep(ScaleStep(qr, m \div 100, c), 100, c), ScaleStep(qr, m % 100, c), c)

\* floor(n * Scale * Fine / d) for 0 <= n < d < 2 * 10^7
Ratio(n, d) ==
    ScaleStep(ScaleStep(ScaleStep(ScaleStep(<<0, n>>, Fine, d), Fine, d), Fine, d), Fine, d)[1]

\* ln((1 + z) / (1 - z)) = 2 atanh(z) for 0 <= z <= 1/3, z given in units of 1e-8
TwoAtanh(zz) ==
    LET z == zz \div Fine
        w == MulS(z, z)
        s5 == Scale \div 11 + MulS(w, Scale \div 13)
        s4 == Scale \div 9 + MulS(w, s5)
        s3 == Scale \div 7 + MulS(w, s4)
        s2 == Scale \div 5 + MulS(w, s3)
        s1 == Scale \div 3 + MulS(w, s2)
    IN  (2 * zz + Fine \div 2) \div Fine + 2 * MulS(z, MulS(w, s1))

\* ln 2 = sum of 1 / (j 2^j), in units of 1e-8
RECURSIVE Ln2Sum(_)
Ln2Sum(j) ==
    IF j = 0 THEN 0
    ELSE (2 * Scale * Fine + j * 2^j) \div (2 * j * 2^j) + Ln2Sum(j - 1)

Ln2Fine == Ln2Sum(24)
Ln2 == (Ln2Fine + Fine \div 2) \div Fine

RECURSIVE Log2(_)
Log2(n) == IF n < 2 THEN 0 ELSE 1 + Log2(n \div 2)

\* ln(n) for an integer 1 <= n < 10^7
LnInt(n) ==
    LET e == Log2(n)
        p == 2^e
    IN  (e * Ln2Fine + Fine \div 2) \div Fine + TwoAtanh(Ratio(n - p, n + p))

\* exp(-x) for x >= 0, as a fraction of Scale
ExpNeg(x) ==
    LET e == x \div Ln2
        r == x % Ln2
        p9 == Scale - MulS(r, Scale \div 10)
        p8 == Scale - MulS(r, p9) \div 9
        p7 == Scale - MulS(r, p8) \div 8
        p6 == Scale - MulS(r, p7) \div 7
        p5 == Scale - MulS(r, p6) \div 6
        p4 == Scale - MulS(r, p5) \div 5
        p3 == Scale - MulS(r, p4) \div 4
        p2 == Scale - MulS(r, p3) \div 3
        p1 == Scale - MulS(r, p2) \div 2
        p0 == Scale - MulS(r, p1)
    IN  IF e > 30 THEN 0 ELSE p0 \div (2^e)

LnScale == LnInt(Scale)

\* ln(np.expm1(x)) = x + ln(1 - exp(-x)); the second term is below half a
\* unit from x = 15 on
expm1(x) ==
    IF x >= 15 * Scale THEN x ELSE x + LnInt(Scale - ExpNeg(x)) - LnScale

(***************************************************************************)
(* Floats kept as logarithms                                               *)
(***************************************************************************)
Zero == -(2^30)                  \* 0.0
MinLn == -745133219              \* ln(2^-1075): a smaller quotient rounds to 0.0

\* a positive constant times y
Times(lnc, y) == IF y = Zero THEN Zero ELSE y + lnc

\* the logarithm v of a quotient, as the float the division returns
Quotient(v) == IF v < MinLn THEN Zero ELSE v

\* the maximum of a[lo .. hi]; the midpoint and the two half maxima are
\* bound by set constructors, so each is computed once
RECURSIVE MaxOf(_, _, _)
MaxOf(a, lo, hi) ==
    IF lo = hi THEN a[lo]
    ELSE CHOOSE m \in {IF p[1] >= p[2] THEN p[1] ELSE p[2] :
                          p \in {<<MaxOf(a, lo, mid), MaxOf(a, mid + 1, hi)>> :
                                     mid \in {(lo + hi) \div 2}}} : TRUE

\* np.max of a non-empty array
np_max(a) == CHOOSE m \in {MaxOf(b, 1, Len(b)) : b \in {a}} : TRUE

(***************************************************************************)
(* Constants and the wavelength grid                                       *)
(***************************************************************************)
hc_over_k == 1438776877          \* h c / k = 0.01438776877 m K, in units of 0.01 nm K
ln_2hc2 == -36666532             \* ln(2 h c^2) = ln(1.19104297e-16)
ln_2ck == -32425155              \* ln(2 c k) = ln(8.27814e-15)
b_wien == 289777195              \* 2.897771955e-3 m K, in units of 0.01 nm K

LambdaFirst == 1                 \* np.linspace(1, 3000, 1000)
LambdaLast == 3000
GridPoints == 1000

Grid == 1 .. GridPoints

\* wavelengths_nm[i - 1] = LambdaNum(i) / (GridPoints - 1)
LambdaNum(i) == LambdaFirst * (GridPoints - 1) + (LambdaLast - LambdaFirst) * (i - 1)

\* ln(wavelengths_m[i - 1]), wavelengths_m = wavelengths_nm * 1e-9
wavelengths_m ==
    [i \in Grid |-> LnInt(LambdaNum(i)) - LnInt(GridPoints - 1) - (LnInt(10^6) + LnInt(10^3))]


(***************************************************************************)
(* calculate_spectra and calculate_y_limits                                *)
(***************************************************************************)
ClipMax == 700                   \* np.clip(x, None, 700)

\* x = h * c / (wavelengths_m * k * T); x = np.clip(x, None, 700), at grid
\* point i.  hc / (k T) is taken in units of 1e-4 nm, x first in units of
\* 1e-4 (where the unclipped value still fits 32 bits) and then in units
\* of 1e-6.
x_clipped(i, T) ==
    LET a == ScaleStep(ScaleStep(<<hc_over_k \div T, hc_over_k % T>>, 100, T), 100, T)[1]
        n == LambdaNum(i)
        x4 == ScaleBig(<<a \div n, a % n>>, GridPoints - 1, n)
    IN  IF x4[1] >= ClipMax * 10^4 THEN ClipMax * Scale
        ELSE ScaleStep(x4, 100, n)[1]

\* exp_term = np.expm1(x); B_planck = (2 * h * c**2) / (wavelengths_m**5 * exp_term)
B_planck(T) ==
    [i \in Grid |-> Quotient(ln_2hc2 - (5 * wavelengths_m[i] + expm1(x_clipped(i, T))))]

\* B_rj = (2 * c * k * T) / (wavelengths_m**4)
B_rj(T) ==
    LET lnT == LnInt(T) - LnInt(Kelvin)
    IN  [i \in Grid |-> Quotient(ln_2ck + lnT - 4 * wavelengths_m[i])]

calculate_spectra(T) == <<B_planck(T), B_rj(T)>>

RjHead == 100                    \* B_rj[:100]

\* the factors of the limit policy, as logarithms
ln_lower_log == -LnInt(10^4)     \* 1e-4
ln_upper_log == LnInt(2)         \* 2
ln_upper_linear == LnInt(8)      \* 8

calculate_y_limits(Bp, Br, use_log_scale) ==
    IF use_log_scale
    THEN LET planck_peak == np_max(Bp)
             y_lower == Times(ln_lower_log, planck_peak)
             y_upper == Times(ln_upper_log, np_max(SubSeq(Br, 1, RjHead)))
         IN  <<y_lower, y_upper>>
    ELSE LET planck_peak == np_max(Bp)
             y_lower == Zero
             y_upper == Times(ln_upper_linear, planck_peak)
         IN  <<y_lower, y_upper>>

\* wien_lambda_nm = (b_wien / T) * 1e9, in units of 0.01 nm
wien_lambda_nm(T) == ScaleStep(<<b_wien \div T, b_wien % T>>, 100, T)[1]

(***************************************************************************)
(* Texts: float(text) and f'{v:.0f}'                                       *)
(* A text is a sequence of one-character strings.                          *)
(***************************************************************************)
DigitChar == <<"0", "1", "2", "3", "4", "5", "6", "7", "8", "9">>

IsDigit(ch) == \E d \in 1 .. 10 : DigitChar[d] = ch

DigitVal(ch) == (CHOOSE d \in 1 .. 10 : DigitChar[d] = ch) - 1

RECURSIVE TextToInt(_)
TextToInt(t) ==
    IF t = <<>> THEN 0
    ELSE 10 * TextToInt(SubSeq(t, 1, Len(t) - 1)) + DigitVal(t[Len(t)])

RECURSIVE IntToText(_)
IntToText(n) ==
    IF n < 10 THEN <<DigitChar[n + 1]>>
    ELSE Append(IntToText(n \div 10), DigitChar[(n % 10) + 1])

\* float(text) for a text of digits and at most one point, with at most
\* two digits after it: [ok |-> TRUE, val |-> the number in hundredths], or
\* [ok |-> FALSE] for the texts float() raises ValueError on (no digit at
\* all, a second point, any other character).
float(text) ==
    LET points == {j \in 1 .. Len(text) : text[j] = "."}
        dot == IF points = {} THEN Len(text) + 1 ELSE CHOOSE j \in points : TRUE
        ip == SubSeq(text, 1, dot - 1)
        fp == SubSeq(text, dot + 1, Len(text))
        fp2 == SubSeq(fp \o <<"0", "0">>, 1, 2)
        wellformed == /\ Cardinality(points) <= 1
                      /\ \A j \in 1 .. Len(ip) : IsDigit(ip[j])
                      /\ \A j \in 1 .. Len(fp) : IsDigit(fp[j])
                      /\ Len(ip) + Len(fp) >= 1
    IN  IF wellformed
        THEN [ok |-> TRUE, val |-> TextToInt(ip) * Kelvin + TextToInt(fp2)]
        ELSE [ok |-> FALSE, val |-> 0]

\* round(v / unit), ties to the even integer, as '.0f' rounds
RoundHalfEven(v, unit) ==
    LET q == v \div unit
        r == v % unit
    IN  IF 2 * r < unit THEN q
        ELSE IF 2 * r > unit THEN q + 1
        ELSE IF q % 2 = 0 THEN q ELSE q + 1

\* f'{v:.0f}' of a non-negative number v given in hundredths
format_0f(v) == IntToText(RoundHalfEven(v, Kelvin))


(***************************************************************************)
(* Widgets and their inputs                                                *)
(***************************************************************************)
T_init == 5000 * Kelvin          \* T_init = 5000.0
valmin == 1000 * Kelvin          \* Slider(ax_slider, ..., 1000, 10000, valinit=T_init, valstep=100)
valmax == 10000 * Kelvin
valstep == 100 * Kelvin

MaxStack == 12                   \* depth of the call stack the model follows
MaxLegends == 2                  \* legend objects told apart after the first

\* Slider._value_in_bounds: the mouse position snapped to the valstep grid
\* (round() of the quotient) and clipped to [valmin, valmax]
value_in_bounds(raw) ==
    LET val == valmin + RoundHalfEven(raw - valmin, valstep) * valstep
    IN  IF val <= valmin THEN valmin
        ELSE IF val >= valmax THEN valmax
        ELSE val

\* mouse positions on and beside the slider track, in hundredths of a kelvin
SliderRaw == {50000, 517300, 731234, 1234500}

\* texts typed into the text box
TextInputs ==
    { <<"7", "3", "0", "0">>,
      <<"1", "0", "0", "0">>,
      <<"5", "0", "0", "0", ".", "5">>,
      <<"7", "2", "9", "9", ".", "5">>,
      <<"1", "0", "0", "0", "0", ".", "0">>,
      <<"9", "9", "9", ".", "9", "9">>,
      <<"1", "0", "0", "0", "0", ".", "0", "1">>,
      <<"5", "0", "0">>,
      <<"2", "0", "0", "0", "0">>,
      <<"a", "b", "c">>,
      <<>> }

\* the lines of a legend: Planck, Rayleigh-Jeans, Wien peak
LegendEntries == 1 .. 3

\* legend_line_map, filled once for the first two lines of the legend made
\* at start-up (legend 0); the same loop gives exactly these lines a picker
legend_line_map ==
    [a \in {<<0, 1>>, <<0, 2>>} |-> IF a[2] = 1 THEN "line_planck" ELSE "line_rj"]

\* the temperatures the inputs above lead to, and calculate_spectra on them
InRange(T) == valmin <= T /\ T <= valmax

Temperatures ==
    LET direct == {T_init} \cup {value_in_bounds(r) : r \in SliderRaw}
                    \cup {float(t).val : t \in {u \in TextInputs : float(u).ok /\ InRange(float(u).val)}}
    IN  direct \cup {float(format_0f(T)).val : T \in direct}

spectra_table == [T \in Temperatures |-> calculate_spectra(T)]

\* calculate_spectra(T), from the table where T is in it
Spectra(T) == IF T \in Temperatures THEN spectra_table[T] ELSE calculate_spectra(T)

(***************************************************************************)
(* State                                                                   *)
(***************************************************************************)
VARIABLES
    slider_val,              \* slider.val
    textbox_text,            \* textbox.text
    log_status,              \* log_check.get_status()[0]
    current_use_log_scale,   \* the module global
    yscale,                  \* ax.get_yscale()
    ylim,                    \* ax.get_ylim()
    line_planck,             \* line_planck.get_ydata()
    line_rj,                 \* line_rj.get_ydata()
    wien_line,               \* wien_line.get_xdata(), both ends
    wien_label,              \* the number in wien_line.get_label()
    title,                   \* the temperature in the title
    legend,                  \* the legend object of the axes
    dialog,                  \* title of the message box shown while handling the event
    console,                 \* the diagnostic printed while handling the event
    stack,                   \* the active calls, outermost first
    event,                   \* the UI event being handled
    spectra_calls            \* calls of calculate_spectra while handling the event

vars == <<slider_val, textbox_text, log_status, current_use_log_scale, yscale, ylim,
          line_planck, line_rj, wien_line, wien_label, title, legend, dialog, console,
          stack, event, spectra_calls>>

plot == <<ylim, line_planck, line_rj, wien_line, wien_label, title, legend>>

Frame(fn, text, val, artist) ==
    [fn |-> fn, pc |-> 0, text |-> text, val |-> val, artist |-> artist]

NoEvent ==
    [kind |-> "none", text |-> <<>>, val |-> 0, entry |-> 0, pre_val |-> 0, pre_scale |-> FALSE,
     pre_text |-> <<>>]

Event(kind, text, val, entry) ==
    [kind |-> kind, text |-> text, val |-> val, entry |-> entry, pre_val |-> slider_val,
     pre_scale |-> current_use_log_scale, pre_text |-> textbox_text]

Idle == event.kind = "none" /\ stack = <<>>
Handled == event.kind # "none" /\ stack = <<>>
Running(fn) == stack # <<>> /\ stack[Len(stack)].fn = fn
Top == stack[Len(stack)]

\* the running call calls another one and resumes after it at pc 1
Call(frame) ==
    /\ Len(stack) < MaxStack
    /\ stack' = Append([stack EXCEPT ![Len(stack)].pc = 1], frame)

Return == stack' = SubSeq(stack, 1, Len(stack) - 1)

\* ax.set_ylim(lower, upper): on a log axis a limit that is not positive is
\* ignored and the old one kept
set_ylim(scale, old, lim) ==
    IF scale = "log" /\ lim[1] = Zero THEN <<old[1], lim[2]>> ELSE lim

\* ax.legend(...): a new legend object replaces the one of the axes
new_legend == IF legend < MaxLegends THEN legend + 1 ELSE legend

Init ==
    LET sp == Spectra(T_init)
    IN  /\ slider_val = T_init
        /\ textbox_text = <<"5", "0", "0", "0">>
        /\ log_status = FALSE
        /\ current_use_log_scale = FALSE
        /\ yscale = "linear"
        /\ line_planck = sp[1]
        /\ line_rj = sp[2]
        /\ ylim = calculate_y_limits(sp[1], sp[2], FALSE)
        /\ wien_line = wien_lambda_nm(T_init)
        /\ wien_label = format_0f(wien_lambda_nm(T_init))
        /\ title = format_0f(T_init)
        /\ legend = 0
        /\ dialog = "none"
        /\ console = "none"
        /\ stack = <<>>
        /\ event = NoEvent
        /\ spectra_calls = 0

(***************************************************************************)
(* The callbacks.  Each takes the frame f of the running call.             *)
(***************************************************************************)

\* Slider.set_val(val): store the value, then notify the observer
\* registered by slider.on_changed(update)
slider_set_val(f) ==
    IF f.pc = 0
    THEN /\ slider_val' = f.val
         /\ Call(Frame("update", <<>>, f.val, <<>>))
         /\ UNCHANGED <<textbox_text, log_status, current_use_log_scale, yscale, plot,
                        dialog, console, event, spectra_calls>>
    ELSE /\ Return
         /\ UNCHANGED <<slider_val, textbox_text, log_status, current_use_log_scale, yscale,
                        plot, dialog, console, event, spectra_calls>>

\* an update that forgets the scale mode and always asks for linear limits
update_limits_linear(sp) == calculate_y_limits(sp[1], sp[2], FALSE)

\* y_lower, y_upper = calculate_y_limits(B_planck, B_rj, current_use_log_scale)
update_limits(sp) == calculate_y_limits(sp[1], sp[2], current_use_log_scale)

\* update with textbox.set_val moved up: T is read and the text box set
\* first, the curves, limits and marker are set from that T afterwards
update_data_after_textbox(f) ==
    IF f.pc = 0
    THEN /\ Call(Frame("textbox_set_val", format_0f(slider_val), 0, <<>>))
         /\ UNCHANGED <<slider_val, textbox_text, log_status, current_use_log_scale, yscale,
                        plot, dialog, console, event, spectra_calls>>
    ELSE LET T == f.val
             sp == Spectra(T)
             lim == update_limits(sp)
             w == wien_lambda_nm(T)
         IN  /\ spectra_calls' = spectra_calls + 1
             /\ line_planck' = sp[1]
             /\ line_rj' = sp[2]
             /\ ylim' = set_ylim(yscale, ylim, lim)
             /\ wien_line' = w
             /\ wien_label' = format_0f(w)
             /\ legend' = new_legend
             /\ title' = format_0f(T)
             /\ Return
             /\ UNCHANGED <<slider_val, textbox_text, log_status, current_use_log_scale,
                            yscale, dialog, console, event>>

\* update(val): everything up to textbox.set_val at pc 0, draw_idle at pc 1
update(f) ==
    IF f.pc = 0
    THEN LET T == slider_val
             sp == Spectra(T)
             lim == update_limits(sp)
             w == wien_lambda_nm(T)
         IN  /\ spectra_calls' = spectra_calls + 1
             /\ line_planck' = sp[1]
             /\ line_rj' = sp[2]
             /\ ylim' = set_ylim(yscale, ylim, lim)
             /\ wien_line' = w
             /\ wien_label' = format_0f(w)
             /\ legend' = new_legend
             /\ title' = format_0f(T)
             /\ Call(Frame("textbox_set_val", format_0f(T), 0, <<>>))
             /\ UNCHANGED <<slider_val, textbox_text, log_status, current_use_log_scale,
                            yscale, dialog, console, event>>
    ELSE /\ Return
         /\ UNCHANGED <<slider_val, textbox_text, log_status, current_use_log_scale, yscale,
                        plot, dialog, console, event, spectra_calls>>

\* a text box that notifies on every set_val
same_text_never(newval) == FALSE

\* TextBox.set_val: if self.text == newval: return
same_text(newval) == textbox_text = newval

\* TextBox.set_val(val): nothing when the text is val already; otherwise
\* store it and notify the observer registered by textbox.on_submit
textbox_set_val(f) ==
    IF f.pc = 0 /\ ~same_text(f.text)
    THEN /\ textbox_text' = f.text
         /\ Call(Frame("on_text_submit", f.text, 0, <<>>))
         /\ UNCHANGED <<slider_val, log_status, current_use_log_scale, yscale, plot,
                        dialog, console, event, spectra_calls>>
    ELSE /\ Return
         /\ UNCHANGED <<slider_val, textbox_text, log_status, current_use_log_scale, yscale,
                        plot, dialog, console, event, spectra_calls>>

\* on_text_submit without the range test
in_range_any(T) == TRUE

\* if 1000 <= T <= 10000
in_range(T) == 1000 * Kelvin <= T /\ T <= 10000 * Kelvin

\* a rejection that prints and leaves the text box as the user typed it
reject_print_only(message) ==
    /\ console' = message
    /\ stack' = [stack EXCEPT ![Len(stack)].pc = 1]
    /\ UNCHANGED <<slider_val, textbox_text, log_status, current_use_log_scale, yscale, plot,
                   dialog, event, spectra_calls>>

\* print(message); textbox.set_val(f'{slider.val:.0f}')
reject(message) ==
    /\ console' = message
    /\ Call(Frame("textbox_set_val", format_0f(slider_val), 0, <<>>))
    /\ UNCHANGED <<slider_val, textbox_text, log_status, current_use_log_scale, yscale, plot,
                   dialog, event, spectra_calls>>

on_text_submit(f) ==
    IF f.pc = 0
    THEN LET T == float(f.text)
         IN  IF T.ok
             THEN IF in_range(T.val)
                  THEN /\ Call(Frame("slider_set_val", <<>>, T.val, <<>>))
                       /\ UNCHANGED <<slider_val, textbox_text, log_status,
                                      current_use_log_scale, yscale, plot, dialog, console,
                                      event, spectra_calls>>
                  ELSE reject("Temperature must be between 1000 and 10000 K")
             ELSE reject("Invalid temperature value")
    ELSE /\ Return
         /\ UNCHANGED <<slider_val, textbox_text, log_status, current_use_log_scale, yscale,
                        plot, dialog, console, event, spectra_calls>>

\* a reset to the left end of the slider
reset_value_valmin == valmin

\* slider.set_val(5000.0)
reset_value == 5000 * Kelvin

reset(f) ==
    IF f.pc = 0
    THEN /\ Call(Frame("slider_set_val", <<>>, reset_value, <<>>))
         /\ UNCHANGED <<slider_val, textbox_text, log_status, current_use_log_scale, yscale,
                        plot, dialog, console, event, spectra_calls>>
    ELSE /\ Return
         /\ UNCHANGED <<slider_val, textbox_text, log_status, current_use_log_scale, yscale,
                        plot, dialog, console, event, spectra_calls>>

\* limits taken for the start-up temperature instead of the current one
toggle_T_init == T_init

\* T = slider.val
toggle_T == slider_val

\* on_log_scale_toggle(label): it calls no callback, so it is one step
on_log_scale_toggle(f) ==
    IF f.text = <<"Log Scale">>
    THEN LET is_log == log_status
             scale == IF is_log THEN "log" ELSE "linear"
             T == toggle_T
             sp == Spectra(T)
             lim == calculate_y_limits(sp[1], sp[2], is_log)
         IN  /\ current_use_log_scale' = is_log
             /\ yscale' = scale
             /\ spectra_calls' = spectra_calls + 1
             /\ ylim' = set_ylim(scale, ylim, lim)
             /\ Return
             /\ UNCHANGED <<slider_val, textbox_text, log_status, line_planck, line_rj,
                            wien_line, wien_label, title, legend, dialog, console, event>>
    ELSE /\ Return
         /\ UNCHANGED <<slider_val, textbox_text, log_status, current_use_log_scale, yscale,
                        plot, dialog, console, event, spectra_calls>>

on_legend_pick(f) ==
    LET legline == f.artist
        origline == IF legline \in DOMAIN legend_line_map THEN legend_line_map[legline]
                    ELSE "None"
    IN  /\ dialog' = IF origline = "line_planck" THEN "Planck Radiation Formula"
                     ELSE IF origline = "line_rj" THEN "Rayleigh-Jeans Law"
                     ELSE dialog
        /\ Return
        /\ UNCHANGED <<slider_val, textbox_text, log_status, current_use_log_scale, yscale,
                       plot, console, event, spectra_calls>>

(***************************************************************************)
(* The UI thread: an event is taken when no call is active; the active     *)
(* call runs to its end before the next event is taken.                    *)
(***************************************************************************)

\* Slider._update: a drag to the mouse position raw
SliderMoved ==
    /\ Idle
    /\ \E raw \in SliderRaw :
          LET val == value_in_bounds(raw)
          IN  /\ event' = Event("slider", <<>>, val, 0)
              /\ stack' = IF val # slider_val
                          THEN <<Frame("slider_set_val", <<>>, val, <<>>)>>
                          ELSE <<>>
    /\ UNCHANGED <<slider_val, textbox_text, log_status, current_use_log_scale, yscale, plot,
                   dialog, console, spectra_calls>>

\* btn_reset.on_clicked(reset)
ResetClicked ==
    /\ Idle
    /\ event' = Event("reset", <<>>, 0, 0)
    /\ stack' = <<Frame("reset", <<>>, 0, <<>>)>>
    /\ UNCHANGED <<slider_val, textbox_text, log_status, current_use_log_scale, yscale, plot,
                   dialog, console, spectra_calls>>

\* the user types a text and presses Enter: textbox.on_submit(on_text_submit)
TextSubmitted ==
    /\ Idle
    /\ \E t \in TextInputs :
          /\ event' = Event("text", t, 0, 0)
          /\ textbox_text' = t
          /\ stack' = <<Frame("on_text_submit", t, 0, <<>>)>>
    /\ UNCHANGED <<slider_val, log_status, current_use_log_scale, yscale, plot, dialog,
                   console, spectra_calls>>

\* a click on the check box flips it: log_check.on_clicked(on_log_scale_toggle)
ScaleToggled ==
    /\ Idle
    /\ event' = Event("toggle", <<>>, 0, 0)
    /\ log_status' = ~log_status
    /\ stack' = <<Frame("on_log_scale_toggle", <<"Log Scale">>, 0, <<>>)>>
    /\ UNCHANGED <<slider_val, textbox_text, current_use_log_scale, yscale, plot, dialog,
                   console, spectra_calls>>

\* a click on line k of the legend shown: a pick event, if that line has a
\* picker (mpl_connect('pick_event', on_legend_pick))
LegendClicked ==
    /\ Idle
    /\ \E k \in LegendEntries :
          /\ event' = Event("pick", <<>>, 0, k)
          /\ stack' = IF <<legend, k>> \in DOMAIN legend_line_map
                      THEN <<Frame("on_legend_pick", <<>>, 0, <<legend, k>>)>>
                      ELSE <<>>
    /\ UNCHANGED <<slider_val, textbox_text, log_status, current_use_log_scale, yscale, plot,
                   dialog, console, spectra_calls>>

\* back in the event loop
EventHandled ==
    /\ Handled
    /\ event' = NoEvent
    /\ dialog' = "none"
    /\ console' = "none"
    /\ spectra_calls' = 0
    /\ UNCHANGED <<slider_val, textbox_text, log_status, current_use_log_scale, yscale, plot,
                   stack>>

SliderSetVal == Running("slider_set_val") /\ slider_set_val(Top)
Update == Running("update") /\ update(Top)
TextBoxSetVal == Running("textbox_set_val") /\ textbox_set_val(Top)
OnTextSubmit == Running("on_text_submit") /\ on_text_submit(Top)
Reset == Running("reset") /\ reset(Top)
OnLogScaleToggle == Running("on_log_scale_toggle") /\ on_log_scale_toggle(Top)
OnLegendPick == Running("on_legend_pick") /\ on_legend_pick(Top)

Step ==
    \/ SliderSetVal
    \/ Update
    \/ TextBoxSetVal
    \/ OnTextSubmit
    \/ Reset
    \/ OnLogScaleToggle
    \/ OnLegendPick
    \/ EventHandled

Next ==
    \/ SliderMoved
    \/ ResetClicked
    \/ TextSubmitted
    \/ ScaleToggled
    \/ LegendClicked
    \/ Step

Spec == Init /\ [][Next]_vars

\* the UI thread keeps running the active call
FairSpec == Spec /\ WF_vars(Step)

(***************************************************************************)
(* Properties                                                              *)
(***************************************************************************)
ValidText(t) == float(t).ok /\ InRange(float(t).val)

FormulaTitle(k) == IF k = 1 THEN "Planck Radiation Formula" ELSE "Rayleigh-Jeans Law"

\* C1: once a slider move to V, or the submission of a text that parses to
\* a number V in [1000, 10000], has been handled to completion, the
\* temperature slider.val is V.
C1_TemperatureIsV ==
    /\ (Handled /\ event.kind = "slider") => slider_val = event.val
    /\ (Handled /\ event.kind = "text" /\ ValidText(event.text))
          => slider_val = float(event.text).val

\* C2: submitting a text that is not a number, or a number outside
\* [1000, 10000], leaves slider.val and the scale mode as they were, and once
\* the event is handled the text box shows the last valid temperature with
\* zero decimals.
C2_InvalidTextRejected ==
    (event.kind = "text" /\ ~ValidText(event.text))
       => /\ slider_val = event.pre_val
          /\ current_use_log_scale = event.pre_scale
          /\ Handled => textbox_text = format_0f(event.pre_val)

\* an invalid text has been rejected at a temperature other than the initial one
C2_Witness ==
    /\ Handled
    /\ event.kind = "text"
    /\ ~ValidText(event.text)
    /\ console = "Invalid temperature value"
    /\ event.pre_val # T_init

\* C3: in every reachable state a click on the legend entry of the Planck
\* curve or of the Rayleigh-Jeans curve opens the dialog with the formula of
\* that curve, and changes neither the temperature nor the scale mode.
C3_LegendClickShowsFormula ==
    (Handled /\ event.kind = "pick" /\ event.entry \in {1, 2})
       => /\ dialog = FormulaTitle(event.entry)
          /\ slider_val = event.pre_val
          /\ current_use_log_scale = event.pre_scale

C5_ToggleNoSpectra ==
    [][Running("on_log_scale_toggle")
          => /\ current_use_log_scale' = log_status
             /\ yscale' = (IF log_status THEN "log" ELSE "linear")
             /\ ylim' = calculate_y_limits(Spectra(slider_val)[1], Spectra(slider_val)[2],
                                           log_status)
             /\ UNCHANGED <<slider_val, line_planck, line_rj, wien_line, wien_label,
                            textbox_text>>
             /\ spectra_calls' = spectra_calls]_vars

\* C5 amended: as above, except that the step runs calculate_spectra once.
C5_ToggleRunsSpectraOnce ==
    [][Running("on_log_scale_toggle")
          => /\ current_use_log_scale' = log_status
             /\ yscale' = (IF log_status THEN "log" ELSE "linear")
             /\ ylim' = calculate_y_limits(Spectra(slider_val)[1], Spectra(slider_val)[2],
                                           log_status)
             /\ UNCHANGED <<slider_val, line_planck, line_rj, wien_line, wien_label,
                            textbox_text>>
             /\ spectra_calls' = spectra_calls + 1]_vars

\* a toggle to log mode has been handled at a temperature other than the initial one
C5_Witness ==
    /\ Handled
    /\ event.kind = "toggle"
    /\ current_use_log_scale
    /\ spectra_calls = 1
    /\ slider_val # T_init

\* C6: a handled Reset click ends at 5000 K with the scale mode unchanged
\* and the plot and text box of a slider move to 5000.
C6_ResetYields5000 ==
    (Handled /\ event.kind = "reset")
       => LET sp == Spectra(5000 * Kelvin)
          IN  /\ slider_val = 5000 * Kelvin
              /\ current_use_log_scale = event.pre_scale
              /\ textbox_text = <<"5", "0", "0", "0">>
              /\ line_planck = sp[1]
              /\ line_rj = sp[2]
              /\ ylim = calculate_y_limits(sp[1], sp[2], event.pre_scale)

\* Reset was clicked in log mode at another temperature
C6_Witness ==
    /\ Handled
    /\ event.kind = "reset"
    /\ event.pre_val # T_init
    /\ event.pre_scale

\* C7: slider.val is in [1000, 10000] in every reachable state.
C7_TemperatureInRange == valmin <= slider_val /\ slider_val <= valmax

\* a text above the range was rejected while the slider is at its upper end
C7_Witness ==
    /\ Handled
    /\ event.kind = "text"
    /\ float(event.text).ok
    /\ float(event.text).val > valmax
    /\ console = "Temperature must be between 1000 and 10000 K"
    /\ slider_val = valmax

\* C8: for the temperature of every reachable state the Planck array of
\* calculate_spectra is positive at every grid point and unimodal: it rises
\* (weakly) to one interior maximum and falls (weakly) after it.
C8_PlanckPositiveUnimodal ==
    LET B == Spectra(slider_val)[1]
        rises == {i \in 1 .. GridPoints - 1 : B[i] < B[i + 1]}
        falls == {i \in 1 .. GridPoints - 1 : B[i] > B[i + 1]}
    IN  /\ \A i \in Grid : B[i] # Zero
        /\ rises # {}
        /\ falls # {}
        /\ \A i \in rises : \A j \in falls : i < j

\* C9: between events the curves and the Wien marker are those of the
\* current temperature.
C9_PlotIsOfTemperature ==
    stack = <<>>
       => LET sp == Spectra(slider_val)
          IN  /\ line_planck = sp[1]
              /\ line_rj = sp[2]
              /\ wien_line = wien_lambda_nm(slider_val)

\* a text with decimals was handled: update ran inside update
C9_Witness ==
    /\ Handled
    /\ event.kind = "text"
    /\ ValidText(event.text)
    /\ spectra_calls = 2
    /\ slider_val # float(event.text).val

\* C10: every event is handled to completion, update runs at most twice
\* for one event, and the calls never nest to the depth the model follows.
C10_EventTerminates ==
    /\ [](spectra_calls <= 2 /\ Len(stack) < MaxStack)
    /\ (event.kind # "none") ~> Handled

\* the deepest nesting: the inner update has called textbox.set_val
C10_Witness ==
    /\ Len(stack) = 8
    /\ Running("textbox_set_val")
    /\ spectra_calls = 2

=============================================================================
